---- MODULE Spec2Model ----
(***************************************************************************)
(* Model of scripts/build_wiki.py: the static wiki generator.              *)
(*                                                                         *)
(* SpecSlug, SpecSplit, SpecHeading and SpecParse apply slugify,           *)
(* split_paragraphs, looks_like_heading and parse_law_enforcement_guide to *)
(* bounded sets of inputs; SpecMain runs main step by step over a bounded  *)
(* set of directory contents.                                              *)
(*                                                                         *)
(* Python strings are modelled as sequences of one-character strings, so   *)
(* that lower(), strip(), split() and the regular expressions of the       *)
(* source are computed character by character, as the source computes     *)
(* them.                                                                   *)
(***************************************************************************)
EXTENDS Integers, Sequences, FiniteSets, TLC

VARIABLES
  pc,         \* position of the running function
  name,       \* slugify: the argument
  slug,       \* slugify(name)
  reslug,     \* slugify(slugify(name))
  text,       \* split_paragraphs: the argument
  blocks,     \* split_paragraphs(text)
  block,      \* looks_like_heading: the argument
  isHeading,  \* looks_like_heading(block)
  legText,    \* parse_law_enforcement_guide: the argument
  parsed,     \* parse_law_enforcement_guide(legText)
  docsExists, \* main: whether DOCS_DIR exists
  docsDir,    \* the names of the entries of DOCS_DIR
  pdfText,    \* what read_pdf_text returns for each document
  assets,     \* the files of scripts/ that can be read
  out,        \* OUT_DIR: whether it exists, its files, the files of docs/
  outBefore,  \* OUT_DIR as the run found it
  pdfs,       \* main's pdfs
  docs_meta,  \* main's docs_meta
  nav_items,  \* main's nav_items
  idx,        \* the place of the running loop in its list
  exitCode    \* the exit status of the process, -1 while it runs

slugVars == <<name, slug, reslug>>
splitVars == <<text, blocks>>
headingVars == <<block, isHeading>>
parseVars == <<legText, parsed>>
inputVars == <<docsExists, docsDir, pdfText, assets, outBefore>>
mainVars == <<inputVars, out, pdfs, docs_meta, nav_items, idx, exitCode>>

vars == <<pc, slugVars, splitVars, headingVars, parseVars, mainVars>>

(***************************************************************************)
(* Characters.                                                             *)
(***************************************************************************)
NL == "\n"
CR == "\r"
FF == "\f"
TAB == "\t"
BSL == "\\"

UpperSeq == <<"A","B","C","D","E","F","G","H","I","J","K","L","M",
              "N","O","P","Q","R","S","T","U","V","W","X","Y","Z">>
LowerSeq == <<"a","b","c","d","e","f","g","h","i","j","k","l","m",
              "n","o","p","q","r","s","t","u","v","w","x","y","z">>
DigitSeq == <<"0","1","2","3","4","5","6","7","8","9">>

Range(s) == {s[i] : i \in 1..Len(s)}

UpperChars == Range(UpperSeq)
LowerChars == Range(LowerSeq)
DigitChars == Range(DigitSeq)

\* str.isspace() on the characters the model uses
Whitespace == {" ", NL, CR, FF, TAB}

\* str.lower() of one character
LowerChar(c) ==
  IF c \in UpperChars
    THEN LowerSeq[CHOOSE i \in 1..Len(UpperSeq) : UpperSeq[i] = c]
    ELSE c

\* str.lower()
Lower(s) == [i \in 1..Len(s) |-> LowerChar(s[i])]

\* str.lstrip(chars) / str.rstrip(chars) / str.strip(chars)
RECURSIVE LStrip(_, _)
LStrip(s, chars) ==
  IF s # <<>> /\ Head(s) \in chars THEN LStrip(Tail(s), chars) ELSE s

RECURSIVE RStrip(_, _)
RStrip(s, chars) ==
  IF s # <<>> /\ s[Len(s)] \in chars
    THEN RStrip(SubSeq(s, 1, Len(s) - 1), chars)
    ELSE s

StripChars(s, chars) == RStrip(LStrip(s, chars), chars)

\* str.strip()
Strip(s) == StripChars(s, Whitespace)

\* s.endswith(suffix)
EndsWith(s, suffix) ==
  /\ Len(s) >= Len(suffix)
  /\ SubSeq(s, Len(s) - Len(suffix) + 1, Len(s)) = suffix

(***************************************************************************)
(* slugify                                                                 *)
(***************************************************************************)
PdfExt == <<".", "p", "d", "f">>

\* re.sub(r"\.pdf$", "", s, flags=re.I); $ also matches before a final newline
StripPdfExt(s) ==
  IF EndsWith(Lower(s), PdfExt)
    THEN SubSeq(s, 1, Len(s) - 4)
    ELSE IF EndsWith(Lower(s), PdfExt \o <<NL>>)
      THEN SubSeq(s, 1, Len(s) - 5) \o <<NL>>
      ELSE s

SlugChars == LowerChars \cup DigitChars

\* re.sub(r"[^a-z0-9]+", "-", s): every maximal run becomes one hyphen
RECURSIVE HyphenateRuns(_, _)
HyphenateRuns(s, inRun) ==
  IF s = <<>> THEN <<>>
  ELSE IF Head(s) \in SlugChars
    THEN <<Head(s)>> \o HyphenateRuns(Tail(s), FALSE)
    ELSE IF inRun
      THEN HyphenateRuns(Tail(s), TRUE)
      ELSE <<"-">> \o HyphenateRuns(Tail(s), TRUE)

\* re.sub(r"-{2,}", "-", s)
RECURSIVE CollapseHyphens(_)
CollapseHyphens(s) ==
  IF Len(s) < 2 THEN s
  ELSE IF s[1] = "-" /\ s[2] = "-"
    THEN CollapseHyphens(Tail(s))
    ELSE <<Head(s)>> \o CollapseHyphens(Tail(s))

DefaultSlug == <<"d", "o", "c">>

\* slugify without the .strip("-") that ends line 33
TrimHyphensNone(s) == s

TrimHyphens(s) == StripChars(s, {"-"})

slugify(n) ==
  LET s1 == Strip(Lower(n))
      s2 == StripPdfExt(s1)
      s3 == HyphenateRuns(s2, FALSE)
      s4 == TrimHyphens(CollapseHyphens(s3))
  IN IF s4 = <<>> THEN DefaultSlug ELSE s4

(***************************************************************************)
(* Inputs of slugify: every name of at most MaxNameLen characters over     *)
(* NameChars (an upper-case letter, the letters of the extension, a dot, a *)
(* hyphen, a blank and a digit).                                           *)
(***************************************************************************)
MaxNameLen == 5

NameChars == {"P", "d", "f", ".", "-", " ", "1"}

SeqsUpTo(S, n) == UNION {[1..k -> S] : k \in 0..n}

SlugIdle == name = <<>> /\ slug = <<>> /\ reslug = <<>>
SplitIdle == text = <<>> /\ blocks = <<>>
HeadingIdle == block = <<>> /\ isHeading = FALSE
NoRows == [arrests |-> <<>>, fines |-> <<>>, notes |-> <<>>]
ParseIdle == legText = <<>> /\ parsed = NoRows
NoDir == [exists |-> FALSE, top |-> <<>>, docs |-> <<>>]
MainIdle ==
  /\ docsExists = FALSE /\ docsDir = {} /\ pdfText = <<>> /\ assets = {}
  /\ out = NoDir /\ outBefore = NoDir
  /\ pdfs = <<>> /\ docs_meta = <<>> /\ nav_items = <<>> /\ idx = 0
  /\ exitCode = -1

SlugInit ==
  /\ pc = "slugify"
  /\ name \in SeqsUpTo(NameChars, MaxNameLen)
  /\ slug = <<>>
  /\ reslug = <<>>
  /\ SplitIdle /\ HeadingIdle /\ ParseIdle /\ MainIdle

Slugify ==
  /\ pc = "slugify"
  /\ slug' = slugify(name)
  /\ pc' = "reslugify"
  /\ UNCHANGED <<name, reslug, splitVars, headingVars, parseVars, mainVars>>

Reslugify ==
  /\ pc = "reslugify"
  /\ reslug' = slugify(slug)
  /\ pc' = "slug_done"
  /\ UNCHANGED <<name, slug, splitVars, headingVars, parseVars, mainVars>>

SlugNext == Slugify \/ Reslugify

SpecSlug == SlugInit /\ [][SlugNext]_vars

\* ^[a-z0-9]+(-[a-z0-9]+)*$
MatchesSlugPattern(s) ==
  /\ s # <<>>
  /\ \A i \in 1..Len(s) : s[i] \in SlugChars \cup {"-"}
  /\ s[1] # "-"
  /\ s[Len(s)] # "-"
  /\ \A i \in 1..(Len(s) - 1) : ~(s[i] = "-" /\ s[i + 1] = "-")

\* C5: slugify is total and idempotent: the result matches
\* ^[a-z0-9]+(-[a-z0-9]+)*$ or is the fallback "doc", and slugifying the
\* result again gives the result.
C5_SlugifyIdempotent ==
  /\ pc \in {"reslugify", "slug_done"} =>
       (MatchesSlugPattern(slug) \/ slug = DefaultSlug)
  /\ pc = "slug_done" => reslug = slug

\* a name with an upper-case letter, punctuation and the extension was
\* slugified twice, and the slug differs from the name
C5_Witness ==
  /\ pc = "slug_done"
  /\ name = <<"P", " ", ".", "P", "d">>
  /\ slug = <<"p", "-", "p", "d">>
  /\ reslug = slug

(***************************************************************************)
(* split_paragraphs                                                        *)
(***************************************************************************)
\* text.replace("\r\n", "\n")
RECURSIVE ReplaceCRLF(_)
ReplaceCRLF(s) ==
  IF s = <<>> THEN <<>>
  ELSE IF Len(s) >= 2 /\ s[1] = CR /\ s[2] = NL
    THEN <<NL>> \o ReplaceCRLF(SubSeq(s, 3, Len(s)))
    ELSE <<Head(s)>> \o ReplaceCRLF(Tail(s))

\* s.replace(c, new) for a one-character c
RECURSIVE ReplaceChar(_, _, _)
ReplaceChar(s, c, new) ==
  IF s = <<>> THEN <<>>
  ELSE (IF Head(s) = c THEN new ELSE <<Head(s)>>) \o ReplaceChar(Tail(s), c, new)

\* text.replace("\r\n", "\n").replace("\r", "\n")
NormalizeNewlines(s) == ReplaceChar(ReplaceCRLF(s), CR, <<NL>>)

PageBreak == <<"[", "[", "P", "A", "G", "E", "B", "R", "E", "A", "K", "]", "]">>

\* re.split(r"\n+", t): a split on single newlines too
RECURSIVE SplitOnNewlines(_, _)
SplitOnNewlines(t, cur) ==
  IF t = <<>> THEN <<cur>>
  ELSE IF t[1] = NL
    THEN <<cur>> \o SplitOnNewlines(LStrip(t, {NL}), <<>>)
    ELSE SplitOnNewlines(Tail(t), Append(cur, Head(t)))

\* re.split(r"\n{2,}", t): cur is the piece being read
RECURSIVE SplitOnBlankRuns(_, _)
SplitOnBlankRuns(t, cur) ==
  IF t = <<>> THEN <<cur>>
  ELSE IF Len(t) >= 2 /\ t[1] = NL /\ t[2] = NL
    THEN <<cur>> \o SplitOnBlankRuns(LStrip(t, {NL}), <<>>)
    ELSE SplitOnBlankRuns(Tail(t), Append(cur, Head(t)))

\* [b.strip() for b in pieces if b.strip()]
RECURSIVE StrippedNonEmpty(_)
StrippedNonEmpty(pieces) ==
  IF pieces = <<>> THEN <<>>
  ELSE (IF Strip(Head(pieces)) # <<>> THEN <<Strip(Head(pieces))>> ELSE <<>>)
         \o StrippedNonEmpty(Tail(pieces))

split_paragraphs(txt) ==
  LET t1 == NormalizeNewlines(txt)
      t2 == ReplaceChar(t1, FF, <<NL, NL>> \o PageBreak \o <<NL, NL>>)
  IN StrippedNonEmpty(SplitOnBlankRuns(t2, <<>>))

MaxTextLen == 5

TextChars == {"a", " ", NL, CR, FF}

SplitInit ==
  /\ pc = "split"
  /\ text \in SeqsUpTo(TextChars, MaxTextLen)
  /\ blocks = <<>>
  /\ SlugIdle /\ HeadingIdle /\ ParseIdle /\ MainIdle

SplitParagraphs ==
  /\ pc = "split"
  /\ blocks' = split_paragraphs(text)
  /\ pc' = "split_done"
  /\ UNCHANGED <<text, slugVars, headingVars, parseVars, mainVars>>

SplitNext == SplitParagraphs

SpecSplit == SplitInit /\ [][SplitNext]_vars

\* two or more consecutive newlines after line-ending normalization
HasBlankLineRun(txt) ==
  LET t == NormalizeNewlines(txt)
  IN \E i \in 1..(Len(t) - 1) : t[i] = NL /\ t[i + 1] = NL

\* C6 as stated: a text with no blank-line run yields exactly one block.
C6_NoBlankRunOneBlock ==
  (pc = "split_done" /\ ~HasBlankLineRun(text)) => Len(blocks) = 1

\* C6, amended: a text with no blank-line run and no page-break sentinel
\* yields exactly one block when it has a non-whitespace character, and no
\* block when it is empty or all whitespace.
C6_NoBlankRunNoSentinel ==
  (pc = "split_done" /\ ~HasBlankLineRun(text) /\ FF \notin Range(text)) =>
    Len(blocks) = (IF Strip(text) = <<>> THEN 0 ELSE 1)

\* a text with single newlines only was split into one block
C6_Witness ==
  /\ pc = "split_done"
  /\ text = <<"a", CR, NL, " ", "a">>
  /\ blocks = <<<<"a", NL, " ", "a">>>>

(***************************************************************************)
(* looks_like_heading                                                      *)
(***************************************************************************)
\* the places where a word of str.split() starts: a non-whitespace
\* character at the start or after a whitespace character
WordStarts(s) ==
  {i \in 1..Len(s) : s[i] \notin Whitespace /\ (i = 1 \/ s[i - 1] \in Whitespace)}

\* " ".join(s.split()): the words are kept, every whitespace run between two
\* words becomes one blank, leading and trailing whitespace goes
Collapse(s) ==
  LET marked == [i \in 1..Len(s) |->
                   IF s[i] \notin Whitespace THEN s[i]
                   ELSE IF /\ i > 1
                           /\ s[i - 1] \notin Whitespace
                           /\ \E j \in (i + 1)..Len(s) : s[j] \notin Whitespace
                     THEN " "
                     ELSE ""]
  IN SelectSeq(marked, LAMBDA c : c # "")

\* str.isupper(): a cased character, and no cased character in lower case
IsUpper(s) ==
  /\ \E i \in 1..Len(s) : s[i] \in UpperChars
  /\ \A i \in 1..Len(s) : s[i] \notin LowerChars

\* re.search(r"[.!?]$", one)
EndsSentence(s) ==
  \/ s # <<>> /\ s[Len(s)] \in {".", "!", "?"}
  \/ Len(s) >= 2 /\ s[Len(s)] = NL /\ s[Len(s) - 1] \in {".", "!", "?"}

\* len(one.split())
WordCount(s) == Cardinality(WordStarts(s))

\* sum(1 for w in words if w[:1].isupper())
CapitalizedCount(s) == Cardinality({i \in WordStarts(s) : s[i] \in UpperChars})

Max(a, b) == IF a >= b THEN a ELSE b

HeadingMaxLen == 80

\* looks_like_heading with the isupper() test moved after the punctuation test
looks_like_heading_punct_first(b) ==
  LET one == Collapse(b)
  IN IF Len(one) > HeadingMaxLen THEN FALSE
     ELSE IF EndsSentence(one) THEN FALSE
     ELSE IF IsUpper(one) THEN TRUE
     ELSE WordCount(one) >= 2
            /\ CapitalizedCount(one) >= Max(2, WordCount(one) - 1)

looks_like_heading(b) ==
  LET one == Collapse(b)
  IN IF Len(one) > HeadingMaxLen THEN FALSE
     ELSE IF IsUpper(one) THEN TRUE
     ELSE IF EndsSentence(one) THEN FALSE
     ELSE WordCount(one) >= 2
            /\ CapitalizedCount(one) >= Max(2, WordCount(one) - 1)

(***************************************************************************)
(* Inputs of looks_like_heading: a run of "A" of a length in PadLens       *)
(* (around the 80-character limit) followed by every tail of at most       *)
(* MaxTailLen characters over HeadingChars.                                *)
(***************************************************************************)
MaxTailLen == 4

HeadingChars == {"A", "a", "1", ".", "?", " ", NL}

PadLens == {0, 77, 78, 79, 80, 90}

Repeat(c, n) == [i \in 1..n |-> c]

HeadingInit ==
  /\ pc = "classify"
  /\ \E n \in PadLens : \E tail \in SeqsUpTo(HeadingChars, MaxTailLen) :
       block = Repeat("A", n) \o tail
  /\ isHeading = FALSE
  /\ SlugIdle /\ SplitIdle /\ ParseIdle /\ MainIdle

LooksLikeHeading ==
  /\ pc = "classify"
  /\ isHeading' = looks_like_heading(block)
  /\ pc' = "classify_done"
  /\ UNCHANGED <<block, slugVars, splitVars, parseVars, mainVars>>

HeadingNext == LooksLikeHeading

SpecHeading == HeadingInit /\ [][HeadingNext]_vars

\* C9: looks_like_heading applies its rules in order to the
\* whitespace-collapsed text, first match wins: (1) more than 80 characters
\* is a Paragraph; (2) all upper-case with a letter is a Heading; (3) ending
\* in ".", "!" or "?" is a Paragraph; (4) two or more words of which at
\* least max(2, words - 1) start with an upper-case letter is a Heading;
\* (5) anything else is a Paragraph.
C9_HeadingRules ==
  pc = "classify_done" =>
    LET one == Collapse(block)
        long == Len(one) > 80
        upper == IsUpper(one)
        punct == one # <<>> /\ one[Len(one)] \in {".", "!", "?"}
        titled == /\ WordCount(one) >= 2
                  /\ CapitalizedCount(one) >= Max(2, WordCount(one) - 1)
    IN /\ long => ~isHeading
       /\ (~long /\ upper) => isHeading
       /\ (~long /\ ~upper /\ punct) => ~isHeading
       /\ (~long /\ ~upper /\ ~punct /\ titled) => isHeading
       /\ (~long /\ ~upper /\ ~punct /\ ~titled) => ~isHeading

\* an all-upper-case text of exactly 80 characters ending in "." was
\* classified as a Heading
C9_Witness ==
  /\ pc = "classify_done"
  /\ block = Repeat("A", 79) \o <<".">>
  /\ isHeading = TRUE

(***************************************************************************)
(* parse_law_enforcement_guide                                             *)
(***************************************************************************)
\* the k-th smallest element of a set of numbers
Nth(S, k) == CHOOSE p \in S : Cardinality({r \in S : r < p}) = k - 1

\* str.split("\n")
SplitLines(t) ==
  LET nls == {i \in 1..Len(t) : t[i] = NL}
      n == Cardinality(nls)
      first(k) == IF k = 1 THEN 1 ELSE Nth(nls, k - 1) + 1
      last(k) == IF k = n + 1 THEN Len(t) ELSE Nth(nls, k) - 1
  IN [k \in 1..(n + 1) |-> SubSeq(t, first(k), last(k))]

\* [ln.strip() for ln in text.replace("\r", "").split("\n")]
StrippedLines(t) ==
  LET raw == SplitLines(SelectSeq(t, LAMBDA c : c # CR))
  IN [k \in 1..Len(raw) |-> Strip(raw[k])]

\* sep.join(parts)
RECURSIVE Join(_, _)
Join(parts, sep) ==
  IF parts = <<>> THEN <<>>
  ELSE IF Len(parts) = 1 THEN parts[1]
  ELSE parts[1] \o sep \o Join(Tail(parts), sep)

\* nonempty(seq)
nonempty(seq) == SelectSeq(seq, LAMBDA x : x # <<>>)

ArrestReasonsLine == <<"a", "r", "r", "e", "s", "t", " ", "r", "e", "a", "s", "o", "n", "s">>
MonetaryFinesLine == <<"m", "o", "n", "e", "t", "a", "r", "y", " ", "f", "i", "n", "e", "s">>

\* fine_idx after the loop of lines 161-166, counted from 1; 0 is None
FineIdx(lines) ==
  LET hits == {i \in 1..Len(lines) : Lower(lines[i]) = MonetaryFinesLine}
  IN IF hits = {} THEN 0 ELSE Nth(hits, 1)

\* arrest_idx after the loop of lines 161-166, counted from 1; 0 is None:
\* every matching line before the break overwrites it, so the last one stays
ArrestIdx(lines) ==
  LET stop == IF FineIdx(lines) = 0 THEN Len(lines) ELSE FineIdx(lines)
      hits == {i \in 1..stop : Lower(lines[i]) = ArrestReasonsLine}
  IN IF hits = {} THEN 0 ELSE Nth(hits, Cardinality(hits))

\* lines[arrest_idx : (fine_idx or len(lines))]: Python counts from 0, so a
\* fine_idx of 0 (the first line) is falsy like None
ArrestChunk(lines, arrestIdx, fineIdx) ==
  LET stop == IF fineIdx = 0 \/ fineIdx = 1 THEN Len(lines) ELSE fineIdx - 1
  IN nonempty(SubSeq(lines, arrestIdx, stop))

TimeUnits == {<<"s", "e", "c", "o", "n", "d">>,
              <<"s", "e", "c", "o", "n", "d", "s">>,
              <<"m", "i", "n", "u", "t", "e">>,
              <<"m", "i", "n", "u", "t", "e", "s">>}

\* s[i..j] holds only the character c
AllAre(s, i, j, c) == \A k \in i..j : s[k] = c

\* s has piece at place i
HasAt(s, i, piece) ==
  /\ i + Len(piece) - 1 <= Len(s)
  /\ SubSeq(s, i, i + Len(piece) - 1) = piece

\* _TIME_RE.match(ln): the pattern of line 148 is a raw string with doubled
\* backslashes, so it reads: a backslash, one or more "d", a backslash, any
\* number of "s", then second(s) or minute(s); case-insensitive, whole line.
\* k is the place of the second backslash, ns the length of the run of "s"
TIME_RE(ln) ==
  LET l == Lower(ln)
  IN /\ Len(l) >= 3
     /\ l[1] = BSL
     /\ \E k \in 3..Len(l) :
          /\ l[k] = BSL
          /\ AllAre(l, 2, k - 1, "d")
          /\ \E ns \in 0..(Len(l) - k) :
               /\ AllAre(l, k + 1, k + ns, "s")
               /\ SubSeq(l, k + ns + 1, Len(l)) \in TimeUnits

CurrencySigns == {"€", "ƒ", "$"}
CurrencyCodes == {<<"e", "u", "r">>, <<"e", "u", "r", "o">>, <<"u", "s", "d">>, <<"g", "b", "p">>}

\* the three alternatives of _AMOUNT_RE (line 149) matched at place i, each
\* read as the raw string gives it: \\ is a backslash, d and s are letters.
\* [€ƒ$]\\s*\\d
AmountSignAt(s, i) ==
  /\ s[i] \in CurrencySigns
  /\ HasAt(s, i + 1, <<BSL>>)
  /\ \E ns \in 0..(Len(s) - i) :
       /\ i + 1 + ns <= Len(s)
       /\ AllAre(s, i + 2, i + 1 + ns, "s")
       /\ HasAt(s, i + 2 + ns, <<BSL, "d">>)

\* \\d+\\s*(?:eur|euro|usd|gbp)
AmountCodeAt(s, i) ==
  /\ s[i] = BSL
  /\ \E k \in (i + 2)..Len(s) :
       /\ s[k] = BSL
       /\ AllAre(s, i + 1, k - 1, "d")
       /\ \E ns \in 0..(Len(s) - k) :
            /\ AllAre(s, k + 1, k + ns, "s")
            /\ \E code \in CurrencyCodes : HasAt(s, k + ns + 1, code)

\* \\d+[\\.,]\\d+
AmountDecimalAt(s, i) ==
  /\ s[i] = BSL
  /\ \E k \in (i + 2)..Len(s) :
       /\ s[k] \in {BSL, ".", ","}
       /\ AllAre(s, i + 1, k - 1, "d")
       /\ HasAt(s, k + 1, <<BSL, "d">>)

\* _AMOUNT_RE.search(ln): an alternative matches at some place
AMOUNT_RE(ln) ==
  \E i \in 1..Len(ln) :
    AmountSignAt(ln, i) \/ AmountCodeAt(ln, i) \/ AmountDecimalAt(ln, i)

ArrestHeaders == {<<"a", "r", "r", "e", "s", "t", " ", "r", "e", "a", "s", "o", "n", "s">>,
                  <<"a", "r", "r", "e", "s", "t", " ", "r", "e", "a", "s", "o", "n">>,
                  <<"j", "a", "i", "l", " ", "t", "i", "m", "e">>,
                  <<"j", "a", "i", "l", " ", "t", "i", "m", "e", " ">>}
FineHeaders == {<<"m", "o", "n", "e", "t", "a", "r", "y", " ", "f", "i", "n", "e", "s">>,
                <<"m", "o", "n", "e", "t", "a", "r", "y", " ", "f", "i", "n", "e">>,
                <<"a", "m", "o", "u", "n", "t">>}

\* lines 187-189 without the "if reason" test
ArrestRowUnguarded(buf, ln) == <<<<Strip(Join(buf, <<" ">>)), ln>>>>

\* lines 187-189: the row a time line closes, or none
ArrestRow(buf, ln) ==
  LET reason == Strip(Join(buf, <<" ">>))
  IN IF reason # <<>> THEN <<<<reason, ln>>>> ELSE <<>>

\* the loop of lines 178-192 over the rest of the chunk
RECURSIVE ArrestLoop(_, _, _)
ArrestLoop(chunk, buf, started) ==
  IF chunk = <<>> THEN <<>>
  ELSE LET ln == Head(chunk) IN
    IF Lower(ln) \in ArrestHeaders THEN ArrestLoop(Tail(chunk), buf, TRUE)
    ELSE IF ~started THEN ArrestLoop(Tail(chunk), buf, FALSE)
    ELSE IF TIME_RE(ln)
      THEN ArrestRow(buf, ln) \o ArrestLoop(Tail(chunk), <<>>, TRUE)
      ELSE ArrestLoop(Tail(chunk), Append(buf, ln), TRUE)

\* lines 211-213: the row an amount line closes, or none
FineRow(buf, ln) ==
  LET fine_name == Strip(Join(buf, <<" ">>))
  IN IF fine_name # <<>> THEN <<<<fine_name, ln>>>> ELSE <<>>

\* the loop of lines 198-216 over the rest of the chunk: the fines and the
\* notes it appends
RECURSIVE FineLoop(_, _, _)
FineLoop(chunk, buf, started) ==
  IF chunk = <<>> THEN [fines |-> <<>>, notes |-> <<>>]
  ELSE LET ln == Head(chunk) IN
    IF Lower(ln) \in FineHeaders THEN FineLoop(Tail(chunk), buf, TRUE)
    ELSE IF ~started THEN FineLoop(Tail(chunk), buf, FALSE)
    ELSE IF ln[1] = "*"
      THEN LET rest == FineLoop(Tail(chunk), buf, TRUE)
           IN [fines |-> rest.fines, notes |-> <<ln>> \o rest.notes]
    ELSE IF AMOUNT_RE(ln) /\ buf # <<>>
      THEN LET rest == FineLoop(Tail(chunk), <<>>, TRUE)
           IN [fines |-> FineRow(buf, ln) \o rest.fines, notes |-> rest.notes]
      ELSE FineLoop(Tail(chunk), Append(buf, ln), TRUE)

parse_law_enforcement_guide(t) ==
  LET lines == StrippedLines(t)
      arrest_idx == ArrestIdx(lines)
      fine_idx == FineIdx(lines)
      arrests == IF arrest_idx # 0
                   THEN ArrestLoop(ArrestChunk(lines, arrest_idx, fine_idx),
                                   <<>>, FALSE)
                   ELSE <<>>
      rest == IF fine_idx # 0
                THEN FineLoop(nonempty(SubSeq(lines, fine_idx, Len(lines))),
                              <<>>, FALSE)
                ELSE [fines |-> <<>>, notes |-> <<>>]
  IN [arrests |-> arrests, fines |-> rest.fines, notes |-> rest.notes]

(***************************************************************************)
(* Inputs of parse_law_enforcement_guide: the text of the documented       *)
(* example, and every text of at most MaxLines lines drawn from LinePool:  *)
(* the two section markers, a label, a line each of the two patterns       *)
(* accepts, a time phrase and an amount as the documents write them, a     *)
(* note and an empty line.                                                 *)
(***************************************************************************)
MaxLines == 4

ExampleLines ==
  << <<"A", "r", "r", "e", "s", "t", " ", "R", "e", "a", "s", "o", "n", "s">>,
     <<"A", "r", "r", "e", "s", "t", " ", "R", "e", "a", "s", "o", "n">>,
     <<"J", "a", "i", "l", " ", "T", "i", "m", "e">>,
     <<"S", "p", "e", "e", "d", "i", "n", "g">>,
     <<"3", "0", " ", "s", "e", "c", "o", "n", "d", "s">>,
     <<"R", "e", "s", "i", "s", "t", "i", "n", "g", " ", "A", "r", "r", "e", "s", "t">>,
     <<"2", " ", "m", "i", "n", "u", "t", "e", "s">>,
     <<"M", "o", "n", "e", "t", "a", "r", "y", " ", "F", "i", "n", "e", "s">>,
     <<"A", "m", "o", "u", "n", "t">>,
     <<"L", "i", "t", "t", "e", "r", "i", "n", "g">>,
     <<"$", "5", "0">>,
     <<"*", " ", "F", "i", "n", "e", "s", " ", "s", "u", "b", "j", "e", "c", "t", " ", "t", "o", " ", "c", "h", "a", "n", "g", "e">> >>

ExampleText == Join(ExampleLines, <<NL>>)

ArLine == <<"A", "r", "r", "e", "s", "t", " ", "R", "e", "a", "s", "o", "n", "s">>
MfLine == <<"M", "O", "N", "E", "T", "A", "R", "Y", " ", "F", "I", "N", "E", "S", "\r">>
LabelLine == <<" ", "T", "h", "e", "f", "t">>
TimeLine == <<"\\", "d", "\\", "s", "e", "c", "o", "n", "d", "s">>
PlainTimeLine == <<"1", "0", " ", "s", "e", "c", "o", "n", "d", "s">>
AmountLine == <<"$", "\\", "\\", "d">>
NoteLine == <<"*", " ", "n">>

LinePool ==
  {ArLine, MfLine, LabelLine, TimeLine, PlainTimeLine, AmountLine, NoteLine, <<>>}

ParseInit ==
  /\ pc = "parse"
  /\ \/ legText = ExampleText
     \/ \E ls \in SeqsUpTo(LinePool, MaxLines) : legText = Join(ls, <<NL>>)
  /\ parsed = NoRows
  /\ SlugIdle /\ SplitIdle /\ HeadingIdle /\ MainIdle

ParseLawEnforcementGuide ==
  /\ pc = "parse"
  /\ parsed' = parse_law_enforcement_guide(legText)
  /\ pc' = "parse_done"
  /\ UNCHANGED <<legText, slugVars, splitVars, headingVars, mainVars>>

ParseNext == ParseLawEnforcementGuide

SpecParse == ParseInit /\ [][ParseNext]_vars

\* C1: for the documented example text the parser returns the arrests
\* (Speeding, 30 seconds) and (Resisting Arrest, 2 minutes), the fine
\* (Littering, $50) and the note "* Fines subject to change".
C1_ExampleRows ==
  (pc = "parse_done" /\ legText = ExampleText) =>
    parsed = [arrests |-> << <<<<"S", "p", "e", "e", "d", "i", "n", "g">>, <<"3", "0", " ", "s", "e", "c", "o", "n", "d", "s">>>>,
                             <<<<"R", "e", "s", "i", "s", "t", "i", "n", "g", " ", "A", "r", "r", "e", "s", "t">>, <<"2", " ", "m", "i", "n", "u", "t", "e", "s">>>> >>,
              fines |-> << <<<<"L", "i", "t", "t", "e", "r", "i", "n", "g">>, <<"$", "5", "0">>>> >>,
              notes |-> << <<"*", " ", "F", "i", "n", "e", "s", " ", "s", "u", "b", "j", "e", "c", "t", " ", "t", "o", " ", "c", "h", "a", "n", "g", "e">> >>]

\* C4: every row of the arrests list and of the fines list has a non-empty
\* label, so a value line that arrives while the label buffer is empty
\* produces no row.
C4_NoEmptyLabel ==
  pc = "parse_done" =>
    /\ \A i \in 1..Len(parsed.arrests) : parsed.arrests[i][1] # <<>>
    /\ \A i \in 1..Len(parsed.fines) : parsed.fines[i][1] # <<>>

\* a time line came right after the header, with nothing buffered, and a
\* second one after a label: only the second made a row
C4_Witness ==
  /\ pc = "parse_done"
  /\ legText = Join(<<ArLine, TimeLine, LabelLine, TimeLine>>, <<NL>>)
  /\ parsed.arrests = << <<Strip(LabelLine), TimeLine>> >>

\* the first line equal to "arrest reasons", counted from 1; 0 when absent
FirstArrestIdx(lines) ==
  LET hits == {i \in 1..Len(lines) : Lower(lines[i]) = ArrestReasonsLine}
  IN IF hits = {} THEN 0 ELSE Nth(hits, 1)

\* the lines equal to "arrest reasons" before the fine marker (or the end)
ArrestMarkersBeforeFines(lines) ==
  {i \in 1..(IF FineIdx(lines) = 0 THEN Len(lines) ELSE FineIdx(lines)) :
     Lower(lines[i]) = ArrestReasonsLine}

\* C10: when "Arrest Reasons" occurs more than once before the fine marker,
\* the arrest section still starts at its first occurrence: the arrests are
\* those of the scan from the first marker line to the fine marker (or the
\* end of the text).
C10_SectionStartsAtFirstMarker ==
  LET lines == StrippedLines(legText)
  IN (pc = "parse_done" /\ Cardinality(ArrestMarkersBeforeFines(lines)) > 1) =>
       parsed.arrests =
         ArrestLoop(ArrestChunk(lines, FirstArrestIdx(lines), FineIdx(lines)),
                    <<>>, FALSE)

(***************************************************************************)
(* build_doc_html, build_nav, build_arrests_fines_page, build_index_html   *)
(* and the search index: a page is modelled by what it is rendered from    *)
(* (its title, its rendered blocks, the navigation list), not by its HTML  *)
(* text.                                                                   *)
(***************************************************************************)
HeadingIdMax == 64
SearchTextMax == 20000

\* len(b.splitlines()) of a block: a stripped text whose only line breaks
\* are newlines
LineCount(b) == Cardinality({k \in 1..Len(b) : b[k] = NL}) + 1

\* s[:n]
Prefix(s, n) == SubSeq(s, 1, IF Len(s) < n THEN Len(s) ELSE n)

\* the loop body of lines 107-119
RenderBlock(b) ==
  IF b = PageBreak THEN [tag |-> "hr", id |-> <<>>, text |-> <<>>]
  ELSE IF looks_like_heading(b)
    THEN [tag |-> "h2", id |-> Prefix(slugify(b), HeadingIdMax),
          text |-> Collapse(b)]
  ELSE IF NL \in Range(b) /\ LineCount(b) >= 3
    THEN [tag |-> "pre", id |-> <<>>, text |-> b]
    ELSE [tag |-> "p", id |-> <<>>, text |-> Collapse(b)]

build_doc_html(title, blks, nav) ==
  [kind |-> "doc", title |-> title,
   body |-> [k \in 1..Len(blks) |-> RenderBlock(blks[k])], nav |-> nav]

build_arrests_fines_page(rows, nav) ==
  [kind |-> "arrests", rows |-> rows, nav |-> nav]

\* the index of line 416
SearchIndex(meta) ==
  [kind |-> "search",
   docs |-> [k \in 1..Len(meta) |->
               [title |-> meta[k].title, href |-> meta[k].href,
                text |-> Prefix(meta[k].text, SearchTextMax)]]]

build_index_html(meta) ==
  [kind |-> "index",
   cards |-> [k \in 1..Len(meta) |->
                [title |-> meta[k].title, href |-> meta[k].href,
                 pages |-> meta[k].pages]]]

(***************************************************************************)
(* main: the directory listing                                             *)
(***************************************************************************)
\* the characters of file names the model uses, in code-point order
AsciiSeq ==
  <<" ", "!", "#", "$", "%", "&", "(", ")", "+", ",", "-", ".",
    "0", "1", "2", "3", "4", "5", "6", "7", "8", "9", ";", "=", "@",
    "A", "B", "C", "D", "E", "F", "G", "H", "I", "J", "K", "L", "M",
    "N", "O", "P", "Q", "R", "S", "T", "U", "V", "W", "X", "Y", "Z",
    "[", "]", "^", "_",
    "a", "b", "c", "d", "e", "f", "g", "h", "i", "j", "k", "l", "m",
    "n", "o", "p", "q", "r", "s", "t", "u", "v", "w", "x", "y", "z",
    "{", "}", "~">>

Ord(c) == CHOOSE k \in 1..Len(AsciiSeq) : AsciiSeq[k] = c

\* a < b for Python strings: by code point, a proper prefix first
StrLess(a, b) ==
  \E k \in 1..Len(b) :
    /\ k <= Len(a) + 1
    /\ \A j \in 1..(k - 1) : a[j] = b[j]
    /\ (k = Len(a) + 1 \/ Ord(a[k]) < Ord(b[k]))

\* DOCS_DIR.glob("*.pdf"), as on a case-sensitive file system
GlobPdf(n) == EndsWith(n, PdfExt)

SubdirName == <<"d", ".", "p", "d", "f">>

\* p.is_file(): one name of the pool is a directory
IsFile(n) == n # SubdirName

\* Path.stem: the name up to its last dot, unless that dot starts or ends it
Stem(n) ==
  LET dots == {k \in 1..Len(n) : n[k] = "."}
      last == IF dots = {} THEN 0 ELSE Nth(dots, Cardinality(dots))
  IN IF 1 < last /\ last < Len(n) THEN SubSeq(n, 1, last - 1) ELSE n

Orderings(S) ==
  {p \in [1..Cardinality(S) -> S] : \A x \in S : \E k \in DOMAIN p : p[k] = x}

\* the listing of line 382 without the sort: glob's own order
AnyListing(files) == Orderings(files)

\* sorted(..., key=lambda p: p.name.lower()): the sort is stable and glob's
\* order is arbitrary, so names with equal keys come in either order
SortedListings(files) ==
  {p \in Orderings(files) :
     \A j \in DOMAIN p : \A k \in DOMAIN p :
       j < k => ~StrLess(Lower(p[k]), Lower(p[j]))}

Href(s) == [dir |-> "/wiki/docs/", slug |-> s, ext |-> ".html"]

\* max(1, text.count("\f") + 1)
PageCount(t) == Max(1, Cardinality({k \in 1..Len(t) : t[k] = FF}) + 1)

\* the entry line 393 appends
DocMeta(pdf, t) ==
  [title |-> Stem(pdf), href |-> Href(slugify(pdf)), slug |-> slugify(pdf),
   pages |-> PageCount(t), text |-> Collapse(t)]

\* next((p for p in pdfs if slugify(p.name) == d["slug"]), None), as a
\* place in pdfs; 0 is None
BySlug(ps, s) ==
  LET hits == {k \in 1..Len(ps) : slugify(ps[k]) = s}
  IN IF hits = {} THEN 0 ELSE Nth(hits, 1)

LegName == <<"L", "a", "w", " ", "E", "n", "f", "o", "r", "c", "e", "m", "e", "n", "t", " ", "G", "u", "i", "d", "e", ".", "p", "d", "f">>

\* next((p for p in pdfs if p.name.lower() == "law enforcement guide.pdf".lower()), None)
LegIdx(ps) ==
  LET hits == {k \in 1..Len(ps) : Lower(ps[k]) = Lower(LegName)}
  IN IF hits = {} THEN 0 ELSE Nth(hits, 1)

(***************************************************************************)
(* main: the output directory                                              *)
(***************************************************************************)
\* lines 371-373 without the rmtree: mkdir(exist_ok=True) alone
KeptDir(o) == [o EXCEPT !.exists = TRUE]

\* lines 371-373: OUT_DIR removed if it exists, then created with docs/
ClearedDir(o) == [exists |-> TRUE, top |-> <<>>, docs |-> <<>>]

\* write_file(OUT_DIR / fname, content)
WriteTop(o, fname, content) ==
  [exists |-> TRUE, top |-> (fname :> content) @@ o.top, docs |-> o.docs]

\* write_file(OUT_DOCS_DIR / f"{slug}.html", content)
WriteDoc(o, s, content) ==
  [exists |-> TRUE, top |-> o.top, docs |-> (s :> content) @@ o.docs]

Asset(fname) == [kind |-> "asset", name |-> fname]

(***************************************************************************)
(* main.  Its inputs: DOCS_DIR absent, or holding at most MaxEntries of    *)
(* the names of NamePool (the recognized document, in two spellings; two   *)
(* names with the same slug; two names that differ only in case; a name    *)
(* that is a prefix of another; a file that is no PDF; a directory); for   *)
(* each document one                                                       *)
(* of two extracted texts; the assets all, in part or not readable;        *)
(* OUT_DIR absent, empty or holding files of an earlier run.               *)
(***************************************************************************)
MaxEntries == 3

NameSpaced == <<"a", " ", "b", ".", "p", "d", "f">>
NameHyphen == <<"A", "-", "b", ".", "p", "d", "f">>
NameShort == <<"a", ".", "p", "d", "f">>
NameShortUpper == <<"A", ".", "p", "d", "f">>
NameLegLower == <<"l", "a", "w", " ", "e", "n", "f", "o", "r", "c", "e", "m", "e", "n", "t", " ", "g", "u", "i", "d", "e", ".", "p", "d", "f">>
NameText == <<"n", ".", "t", "x", "t">>

NamePool ==
  {LegName, NameLegLower, NameSpaced, NameHyphen, NameShort, NameShortUpper,
   NameText, SubdirName}

TextProse == <<"I", "N", "T", "R", "O", "\n", "\n", "x", " ", "y", ".", "\f", "z">>
TextTable == Join(<<ArLine, LabelLine, TimeLine>>, <<NL>>)

Texts == {TextProse, TextTable}

Stale == [kind |-> "stale"]
EmptyDir == [exists |-> TRUE, top |-> <<>>, docs |-> <<>>]
StaleDir ==
  [exists |-> TRUE,
   top |-> ("arrests-fines.html" :> Stale) @@ ("index.html" :> Stale),
   docs |-> (DefaultSlug :> Stale)]

\* the documents of a directory: what line 382 lists
Documents(dir) == {n \in dir : GlobPdf(n) /\ IsFile(n)}

MainInit ==
  /\ pc = "check"
  /\ docsExists \in BOOLEAN
  /\ docsDir \in (IF docsExists
                    THEN {d \in SUBSET NamePool : Cardinality(d) <= MaxEntries}
                    ELSE {{}})
  /\ pdfText \in [Documents(docsDir) -> Texts]
  /\ assets \in {{"wiki.css", "wiki.js"}, {"wiki.css"}, {}}
  /\ out \in {NoDir, EmptyDir, StaleDir}
  /\ outBefore = out
  /\ pdfs = <<>> /\ docs_meta = <<>> /\ nav_items = <<>> /\ idx = 0
  /\ exitCode = -1
  /\ SlugIdle /\ SplitIdle /\ HeadingIdle /\ ParseIdle

pureVars == <<slugVars, splitVars, headingVars, parseVars>>

\* lines 365-366 without the test
CheckDocsDirNoAbort ==
  /\ pc = "check"
  /\ pc' = "reset"
  /\ UNCHANGED <<inputVars, out, pdfs, docs_meta, nav_items, idx, exitCode,
                 pureVars>>

\* lines 365-366: raise SystemExit(message) ends the process with status 1
CheckDocsDir ==
  /\ pc = "check"
  /\ IF docsExists
       THEN pc' = "reset" /\ exitCode' = exitCode
       ELSE pc' = "exited" /\ exitCode' = 1
  /\ UNCHANGED <<inputVars, out, pdfs, docs_meta, nav_items, idx, pureVars>>

\* lines 371-373
ResetOutput ==
  /\ pc = "reset"
  /\ out' = ClearedDir(out)
  /\ pc' = "assets"
  /\ UNCHANGED <<inputVars, pdfs, docs_meta, nav_items, idx, exitCode,
                 pureVars>>

\* lines 376-377: each asset is read, then written; a read_text of a
\* missing file raises and ends the process
WriteAssets ==
  /\ pc = "assets"
  /\ IF "wiki.css" \notin assets
       THEN out' = out /\ pc' = "exited" /\ exitCode' = 1
       ELSE IF "wiki.js" \notin assets
         THEN /\ out' = WriteTop(out, "wiki.css", Asset("wiki.css"))
              /\ pc' = "exited" /\ exitCode' = 1
         ELSE /\ out' = WriteTop(WriteTop(out, "wiki.css", Asset("wiki.css")),
                                 "wiki.js", Asset("wiki.js"))
              /\ pc' = "list" /\ exitCode' = exitCode
  /\ UNCHANGED <<inputVars, pdfs, docs_meta, nav_items, idx, pureVars>>

\* lines 379-382
ListPdfs ==
  /\ pc = "list"
  /\ pdfs' \in SortedListings(Documents(docsDir))
  /\ docs_meta' = <<>>
  /\ nav_items' = <<>>
  /\ idx' = 1
  /\ pc' = "meta"
  /\ UNCHANGED <<inputVars, out, exitCode, pureVars>>

\* lines 383-393, one document
MetaStep ==
  /\ pc = "meta"
  /\ idx <= Len(pdfs)
  /\ LET d == DocMeta(pdfs[idx], pdfText[pdfs[idx]])
     IN /\ nav_items' = Append(nav_items, <<d.title, d.href>>)
        /\ docs_meta' = Append(docs_meta, d)
  /\ idx' = idx + 1
  /\ UNCHANGED <<pc, inputVars, out, pdfs, exitCode, pureVars>>

\* line 395, after the last document
BuildNav ==
  /\ pc = "meta"
  /\ idx > Len(pdfs)
  /\ idx' = 1
  /\ pc' = "pages"
  /\ UNCHANGED <<inputVars, out, pdfs, docs_meta, nav_items, exitCode,
                 pureVars>>

\* lines 398-407, one entry of docs_meta
PageStep ==
  /\ pc = "pages"
  /\ idx <= Len(docs_meta)
  /\ LET d == docs_meta[idx]
         k == BySlug(pdfs, d.slug)
     IN IF k = 0
          THEN out' = out
          ELSE out' = WriteDoc(out, d.slug,
                        build_doc_html(d.title,
                                       split_paragraphs(pdfText[pdfs[k]]),
                                       nav_items))
  /\ idx' = idx + 1
  /\ UNCHANGED <<pc, inputVars, pdfs, docs_meta, nav_items, exitCode,
                 pureVars>>

\* the end of the loop of line 398
PagesDone ==
  /\ pc = "pages"
  /\ idx > Len(docs_meta)
  /\ pc' = "arrests"
  /\ UNCHANGED <<inputVars, out, pdfs, docs_meta, nav_items, idx, exitCode,
                 pureVars>>

\* lines 410-413
ArrestsFinesPage ==
  /\ pc = "arrests"
  /\ LET k == LegIdx(pdfs)
     IN IF k = 0
          THEN out' = out
          ELSE out' = WriteTop(out, "arrests-fines.html",
                        build_arrests_fines_page(
                          parse_law_enforcement_guide(pdfText[pdfs[k]]),
                          nav_items))
  /\ pc' = "search"
  /\ UNCHANGED <<inputVars, pdfs, docs_meta, nav_items, idx, exitCode,
                 pureVars>>

\* lines 416-417
WriteSearchIndex ==
  /\ pc = "search"
  /\ out' = WriteTop(out, "search-index.json", SearchIndex(docs_meta))
  /\ pc' = "index"
  /\ UNCHANGED <<inputVars, pdfs, docs_meta, nav_items, idx, exitCode,
                 pureVars>>

\* lines 420-422
WriteIndexPage ==
  /\ pc = "index"
  /\ out' = WriteTop(out, "index.html", build_index_html(docs_meta))
  /\ pc' = "done"
  /\ exitCode' = 0
  /\ UNCHANGED <<inputVars, pdfs, docs_meta, nav_items, idx, pureVars>>

\* read_pdf_text raises (lines 387, 404, 412): the extractor's exception is
\* not caught, and ends the process
ExtractFails ==
  /\ \/ pc = "meta" /\ idx <= Len(pdfs)
     \/ pc = "pages" /\ idx <= Len(docs_meta)
     \/ pc = "arrests" /\ LegIdx(pdfs) # 0
  /\ pc' = "exited"
  /\ exitCode' = 1
  /\ UNCHANGED <<inputVars, out, pdfs, docs_meta, nav_items, idx, pureVars>>

MainNext ==
  \/ CheckDocsDir
  \/ ResetOutput
  \/ WriteAssets
  \/ ListPdfs
  \/ MetaStep
  \/ BuildNav
  \/ PageStep
  \/ PagesDone
  \/ ArrestsFinesPage
  \/ WriteSearchIndex
  \/ WriteIndexPage
  \/ ExtractFails

SpecMain == MainInit /\ [][MainNext]_vars

\* C2: after a successful build the output holds exactly one docs/ page per
\* input document, each rendered from that document's own title and its own
\* extracted text blocks, also when two file names derive the same slug.
C2_OnePagePerDocument ==
  pc = "done" =>
    /\ Cardinality(DOMAIN out.docs) = Cardinality(Documents(docsDir))
    /\ \A n \in Documents(docsDir) :
         /\ slugify(n) \in DOMAIN out.docs
         /\ out.docs[slugify(n)] =
              build_doc_html(Stem(n), split_paragraphs(pdfText[n]), nav_items)

\* C3: when the documents directory does not exist the build ends with a
\* non-zero exit and the output directory is as the run found it.
C3_MissingInputTouchesNothing ==
  ~docsExists =>
    /\ out = outBefore
    /\ pc \in {"check", "exited"}
    /\ pc = "exited" => exitCode # 0

\* the build ended on a missing documents directory, with the files of an
\* earlier run still in place
C3_Witness ==
  /\ ~docsExists
  /\ pc = "exited"
  /\ exitCode = 1
  /\ out = StaleDir

\* C7: after a successful build arrests-fines.html exists if and only if an
\* input document is named, whatever the case, "Law Enforcement Guide.pdf";
\* the one that exists is this run's page, never an earlier run's.
C7_ArrestsPageIffGuide ==
  pc = "done" =>
    /\ "arrests-fines.html" \in DOMAIN out.top
         <=> \E n \in Documents(docsDir) : Lower(n) = Lower(LegName)
    /\ "arrests-fines.html" \in DOMAIN out.top
         => out.top["arrests-fines.html"].kind = "arrests"

\* a build without the guide succeeded over an output directory that held an
\* earlier run's arrests-fines.html, which is gone
C7_Witness ==
  /\ pc = "done"
  /\ "arrests-fines.html" \in DOMAIN outBefore.top
  /\ Documents(docsDir) = {NameShort}
  /\ "arrests-fines.html" \notin DOMAIN out.top

\* a sequence of names is in case-insensitive order
SortedNoCase(names) ==
  \A j \in DOMAIN names : \A k \in DOMAIN names :
    j < k => ~StrLess(Lower(names[k]), Lower(names[j]))

\* the titles of the search index, of the index cards and of the navigation
SearchTitles == [k \in DOMAIN out.top["search-index.json"].docs |->
                   out.top["search-index.json"].docs[k].title]
CardTitles == [k \in DOMAIN out.top["index.html"].cards |->
                 out.top["index.html"].cards[k].title]
NavTitles == [k \in DOMAIN nav_items |-> nav_items[k][1]]

\* C8 as stated: the document entries of the search index, of the index
\* cards and of the navigation list are sorted by title, case-insensitively.
C8_SortedByTitle ==
  pc = "done" =>
    /\ SortedNoCase(SearchTitles)
    /\ SortedNoCase(CardTitles)
    /\ SortedNoCase(NavTitles)

WithPdfExt(titles) == [k \in DOMAIN titles |-> titles[k] \o PdfExt]

\* C8, amended: the entries are sorted by file name (the title followed by
\* the .pdf extension), case-insensitively, and hold one entry per input
\* document.
C8_SortedByFileName ==
  pc = "done" =>
    /\ SortedNoCase(WithPdfExt(SearchTitles))
    /\ SortedNoCase(WithPdfExt(CardTitles))
    /\ SortedNoCase(WithPdfExt(NavTitles))
    /\ Range(SearchTitles) = {Stem(n) : n \in Documents(docsDir)}
    /\ CardTitles = SearchTitles
    /\ NavTitles = SearchTitles

\* a build over three documents succeeded, and its entries are in file-name
\* order, which is not title order: "a b" comes before "a"
C8_Witness ==
  /\ pc = "done"
  /\ Documents(docsDir) = {LegName, NameSpaced, NameShort}
  /\ SearchTitles = <<Stem(NameSpaced), Stem(NameShort), Stem(LegName)>>

====
